---- MODULE Spec2Model ----
(***************************************************************************)
(* A model of the 3D scene editor overlay: the selection model             *)
(* (src/src/tools/select.tsx), the event bubbling layer                    *)
(* (src/unnamed/part_002, utils/interactive) and the scene-graph helpers   *)
(* (src/unnamed/part_003, utils/parented).                                 *)
(*                                                                         *)
(* Lists are JavaScript arrays: the operators below keep the 0-based       *)
(* indices of the source (indexOf returns -1 when absent).                 *)
(***************************************************************************)
EXTENDS Integers, Sequences, FiniteSets, TLC

VARIABLES
    selection,     \* SelectableInfo.selection of every registered selectable
    insertAfter,   \* insert-position memory of the subset sync, per (selectable, item)
    selectables,   \* SelectControlsInfo.selectables, in registration order
    disabled,      \* SelectControlsInfo.disabled
    dragging,      \* TransformComponent startTransform.current is set (a drag is active)
    timers,        \* number of pending setTimeout(() => disabled = false, 100) callbacks
    listeners,     \* per-object 'onClick' listeners added with useEvent / useEventsIgnored
    log,           \* the listener invocations of the last dispatch, in order
    event,         \* the synthetic event of the last dispatch: the Proxy's target
                   \* object and the underlying framework event
    objects,       \* the selection list the transform gizmo works on (useIslands' objects)
    islands,       \* useIslands: the islands list
    destructors,   \* useItemEffect: the items that have a destructor registered
    directlyTransformed, \* ObjectTransformer.directlyTransformed
    startTransforms,     \* ObjectTransformer.#startTransforms: per object the transform
                         \* set by start, and the drag whose start set it
    position,      \* the transform of every object: a translation along one axis
    startTransform,      \* TransformComponent startTransform.current while it is set
    applied,       \* what the last #applyTransform did: the objects it moved, and
                   \* whether it threw
    coordinateSystem,    \* TransformControlsState.coordinateSystem
    isTransforming,      \* OrbitTool: the state of useIsTransforming() on the scene
    toolMode,      \* SelectControls: the mode chosen in the toolbar
    raised,        \* useRaiseSelectionEvents: the members before the last change of the
                   \* selection list, and the events dispatched during it
    subscribed,    \* useItemEffect: how many destructors each item has registered
    membership,    \* one useMembership hook: its insertAfter ref, the member its last
                   \* effect run inserted, and for every member the element that
                   \* preceded it when the hook last inserted it
    geometryEdit,  \* GeometryEditComponent: the index map, what every vertex proxy
                   \* rendered, info.transformingObjects, the proxy being dragged, the
                   \* number of geometry updates and the update each proxy last
                   \* recomputed at
    located,       \* what the last useLocalSelectableTo call returned (or that it threw)
    last           \* the last input event and what the claims need to remember of the past

\* the state of the hooks next to the selection model
transformerVars == <<directlyTransformed, startTransforms, position, startTransform, applied,
                     coordinateSystem, isTransforming>>

raiseVars == <<toolMode, raised, subscribed>>

toolVars == <<objects, islands, destructors, located, transformerVars, raiseVars, membership, geometryEdit>>

\* the state of the selection model and of the event layer
editorVars == <<selection, insertAfter, selectables, disabled, dragging, timers,
                listeners, log, event>>

vars    == <<selection, insertAfter, selectables, disabled, dragging, timers, listeners,
            log, event, objects, islands, destructors, directlyTransformed,
            startTransforms, position, startTransform, applied, coordinateSystem, isTransforming,
            toolMode,
            raised,
            subscribed, membership, geometryEdit, located, last>>

----------------------------------------------------------------------------
(* The scene graph.  Object3D.parent of every node; NoNode is null.        *)

NoNode == "null"

Containers == {"A", "B", "C"}

Hittable == {"a1", "c1", "b1", "b2"}

\* objects below the hittable object b1
Nested == {"b11", "b111"}

\* the virtual pivot of the `average` gizmo placement: the transform
\* controls render it next to the top-level Selectable containers
Pivot == "pivot"

Nodes == {"scene"} \cup Containers \cup Hittable \cup Nested \cup {Pivot}

\* scene > A > {a1, C > c1},  scene > B > {b1 > b11 > b111, b2},  scene > pivot
parent ==
    [n \in Nodes |->
        CASE n = "scene" -> NoNode
          [] n \in {"A", "B", Pivot} -> "scene"
          [] n \in {"a1", "C"} -> "A"
          [] n = "c1" -> "C"
          [] n \in {"b1", "b2"} -> "B"
          [] n = "b11" -> "b1"
          [] n = "b111" -> "b11"]

RECURSIVE isDescendantOfOrEqual(_, _, _)
isDescendantOfOrEqual(object, root, separators) ==
    IF object \in separators THEN FALSE
    ELSE IF object = root THEN TRUE
    ELSE IF parent[object] # NoNode
         THEN isDescendantOfOrEqual(parent[object], root, separators)
    ELSE FALSE

isDescendantOf(object, root, separators) ==
    IF parent[object] # NoNode
    THEN isDescendantOfOrEqual(parent[object], root, separators)
    ELSE FALSE

----------------------------------------------------------------------------
(* Array operations of ObservableList (an Array subclass), 0-based.        *)

indexOf(list, item) ==
    IF \E i \in 1..Len(list) : list[i] = item
    THEN (CHOOSE i \in 1..Len(list) :
              list[i] = item /\ \A j \in 1..(i - 1) : list[j] # item) - 1
    ELSE -1

\* list.splice(index, 1)
spliceOut(list, index) ==
    SubSeq(list, 1, index) \o SubSeq(list, index + 2, Len(list))

\* list.splice(index, 0, item)
spliceIn(list, index, item) ==
    SubSeq(list, 1, index) \o <<item>> \o SubSeq(list, index + 1, Len(list))

Range(list) == {list[i] : i \in 1..Len(list)}

----------------------------------------------------------------------------
(* Selectable scopes.  A SelectableInfo is created by the mount effect of  *)
(* useContainerSelectable as {container, selection, ...props}: the effect  *)
(* stores no `parent`, so the field is absent (NoSel) on every info.       *)

NoSel == "none"

\* <Selectable> mounts without the isolateSelections prop: the default is false
isolateSelections == [s \in Containers |-> FALSE]

SelectableInfo(s) ==
    [container |-> s, isolateSelections |-> isolateSelections[s], parent |-> NoSel]

\* the enclosing <Selectable> a scope reads from the React context
contextParent ==
    [s \in Containers |-> IF s = "C" THEN "A" ELSE NoSel]

RECURSIVE globalSelectable(_)
globalSelectable(selectable) ==
    IF selectable.isolateSelections THEN selectable.container
    ELSE IF selectable.parent # NoSel
         THEN globalSelectable(SelectableInfo(selectable.parent))
    ELSE selectable.container

----------------------------------------------------------------------------
(* Membership insert-position memory (useMembership) and the subset sync   *)
(* useObservableSubset(source, destination) built on it.  A state `st` is  *)
(* the record [sel, after, log]: the selection lists, the insert-position  *)
(* memories and the invocation log of the dispatch in progress.            *)

Undefined == "undefined"
Start == "start"

\* useMembership: where the member goes, from the remembered predecessor
membershipInsertIndex(list, memory) ==
    IF memory = Undefined THEN Len(list)
    ELSE IF memory = Start THEN 0
    ELSE IF indexOf(list, memory) >= 0 THEN indexOf(list, memory) + 1
    ELSE Len(list)

\* useMembership: the predecessor remembered for the next insertion
membershipMemory(list, insertIndex) ==
    IF insertIndex = 0 THEN Start ELSE list[insertIndex]

\* the members one useMembership hook is given, one at a time
Members == {"b1", "b2"}

\* the scopes whose subset sync has `s`'s list as its source
subsetDestinations(s) ==
    {d \in Range(selectables) : contextParent[d] = s}

RECURSIVE mirrorInsert(_, _, _)
mirrorInsert(st, dests, item) ==
    IF dests = {} THEN st
    ELSE LET d == CHOOSE x \in dests : TRUE
             list == st.sel[d]
             at == membershipInsertIndex(list, st.after[d][item])
             inserted == [st EXCEPT !.sel[d] = spliceIn(list, at, item),
                                    !.after[d][item] = membershipMemory(list, at)]
             below == mirrorInsert(inserted, subsetDestinations(d), item)
         IN mirrorInsert(below, dests \ {d}, item)

RECURSIVE mirrorDelete(_, _, _)
mirrorDelete(st, dests, item) ==
    IF dests = {} THEN st
    ELSE LET d == CHOOSE x \in dests : TRUE
             index == indexOf(st.sel[d], item)
             below == IF index # -1
                      THEN mirrorDelete([st EXCEPT !.sel[d] = spliceOut(@, index)],
                                        subsetDestinations(d), item)
                      ELSE st
         IN mirrorDelete(below, dests \ {d}, item)

\* a push that puts the item at the front of the list
push_front(st, s, item) ==
    mirrorInsert([st EXCEPT !.sel[s] = <<item>> \o @], subsetDestinations(s), item)

\* selection.push(item), with its "insert" notification
push(st, s, item) ==
    mirrorInsert([st EXCEPT !.sel[s] = Append(@, item)], subsetDestinations(s), item)

\* a splice that always removes the first entry
splice1_first(st, s, index) ==
    mirrorDelete([st EXCEPT !.sel[s] = spliceOut(@, 0)],
                 subsetDestinations(s), st.sel[s][1])

\* selection.splice(index, 1), with its "delete" notification
splice1(st, s, index) ==
    mirrorDelete([st EXCEPT !.sel[s] = spliceOut(@, index)],
                 subsetDestinations(s), st.sel[s][index + 1])

RECURSIVE notifyDeleted(_, _, _, _)
notifyDeleted(st, s, removed, i) ==
    IF i > Len(removed) THEN st
    ELSE notifyDeleted(mirrorDelete(st, subsetDestinations(s), removed[i]), s, removed, i + 1)

\* selection.splice(0, selection.length), with one "delete" notification per item
clear(st, s) ==
    notifyDeleted([st EXCEPT !.sel[s] = <<>>], s, st.sel[s], 1)

----------------------------------------------------------------------------
(* The synthetic event: a Proxy over a copy of the framework event.        *)
(* p.target is the Proxy's own target object ({...event, type}), p.event   *)
(* the underlying framework event.                                         *)

uncopied == {"target", "currentTarget"}

\* the framework's own value of event.target and event.currentTarget (its
\* pointer-capture handle, not a scene object)
FrameworkTarget == "framework"

threeEvent(eventName, object, bubbles) ==
    [target |-> [type |-> eventName, object |-> object, bubbles |-> bubbles,
                 cancelBubble |-> FALSE, stopped |-> FALSE,
                 target |-> FrameworkTarget, currentTarget |-> FrameworkTarget],
     event  |-> [object |-> object, bubbles |-> bubbles,
                 cancelBubble |-> FALSE, stopped |-> FALSE,
                 target |-> FrameworkTarget, currentTarget |-> FrameworkTarget]]

\* get trap, for a property that is not a method
proxyGet(p, prop) ==
    IF prop \in DOMAIN p.target THEN p.target[prop] ELSE Undefined

\* obj[prop] = value
assign(obj, prop, value) ==
    IF prop \in DOMAIN obj THEN [obj EXCEPT ![prop] = value]
    ELSE obj @@ (prop :> value)

\* a set trap that syncs every field back, target and currentTarget too
proxySet_copyAll(p, prop, value) ==
    [target |-> assign(p.target, prop, value),
     event  |-> IF prop \in DOMAIN p.event THEN assign(p.event, prop, value)
                ELSE p.event]

\* set trap
proxySet(p, prop, value) ==
    [target |-> assign(p.target, prop, value),
     event  |-> IF prop \in DOMAIN p.event /\ prop \notin uncopied
                THEN assign(p.event, prop, value)
                ELSE p.event]

\* get trap, for the method stopPropagation: the event's own method, bound
\* to the underlying event, so the call acts on the underlying event (the
\* framework marks it stopped)
stopPropagation(p) == [p EXCEPT !.event.stopped = TRUE]

----------------------------------------------------------------------------
(* Listeners.  A listener invocation takes and returns r = [p, st]: the    *)
(* synthetic event and the program state.                                  *)

Modes == {"replace", "toggle", "add", "remove"}

\* a listener of `node` is called with the event p: what it can observe
logged(st, node, kind, p) ==
    [st EXCEPT !.log = Append(@, [node |-> node, kind |-> kind,
                                  target |-> proxyGet(p, "target"),
                                  currentTarget |-> proxyGet(p, "currentTarget")])]

\* a replace loop that removes nothing
replaceLoop_none(st, global, i, index_local) == st

\* case SelectionMode.replace: for (i = 0; i < selection_global.length; i++)
\*     if (i !== index_local) selection_global.splice(i--, 1)
RECURSIVE replaceLoop(_, _, _, _)
replaceLoop(st, global, i, index_local) ==
    IF i < Len(st.sel[global])
    THEN IF i # index_local
         THEN replaceLoop(splice1(st, global, i), global, i, index_local)
         ELSE replaceLoop(st, global, i + 1, index_local)
    ELSE st

\* the switch over selectControls.mode of the container's click handler
applyMode(st, mode, object, global, local) ==
    LET index_global == indexOf(st.sel[global], object)
        index_local == indexOf(st.sel[local], object)
        includes_global == index_global # -1
        includes_local == index_local # -1
    IN CASE mode = "replace" ->
                LET removed == replaceLoop(st, global, 0, index_local)
                IN IF ~includes_local THEN push(removed, local, object) ELSE removed
         [] mode = "toggle" ->
                IF includes_global THEN splice1(st, global, index_global)
                ELSE push(st, local, object)
         [] mode = "add" ->
                IF ~includes_local THEN push(st, global, object) ELSE st
         [] mode = "remove" ->
                IF includes_global THEN splice1(st, global, index_global) ELSE st

\* a click listener without the early return on selectControls.disabled
onClick_whileDisabled(s, p, st, mode, isDisabled) ==
    [p  |-> stopPropagation(p),
     st |-> applyMode(st, mode, proxyGet(p, "object"),
                      globalSelectable(SelectableInfo(s)), s)]

\* useContainerSelectable: the 'onClick' listener of the container of scope s
onClick(s, p, st, mode, isDisabled) ==
    IF isDisabled THEN [p |-> p, st |-> st]
    ELSE [p  |-> stopPropagation(p),
          st |-> applyMode(st, mode, proxyGet(p, "object"),
                           globalSelectable(SelectableInfo(s)), s)]

\* an island split with the descendant test the wrong way round: it drops
\* the containers that have a registered descendant
RECURSIVE rootIslands_reversed(_, _)
rootIslands_reversed(list, i) ==
    IF i >= Len(list) THEN list
    ELSE IF \E k \in 1..Len(list) : isDescendantOf(list[k], list[i + 1], {})
         THEN rootIslands_reversed(spliceOut(list, i), i)
         ELSE rootIslands_reversed(list, i + 1)

\* SelectControls onPointerMissed: "separate into islands"
RECURSIVE rootIslands(_, _)
rootIslands(list, i) ==
    IF i >= Len(list) THEN list
    ELSE IF \E k \in 1..Len(list) : isDescendantOf(list[i + 1], list[k], {})
         THEN rootIslands(spliceOut(list, i), i)
         ELSE rootIslands(list, i + 1)

RECURSIVE clearAll(_, _, _)
clearAll(st, list, i) ==
    IF i > Len(list) THEN st ELSE clearAll(clear(st, list[i]), list, i + 1)

\* SelectControls: the 'onPointerMissed' listener of the scene
onPointerMissed(p, st, isDisabled) ==
    IF isDisabled THEN [p |-> p, st |-> st]
    ELSE [p  |-> stopPropagation(p),
          st |-> clearAll(st, rootIslands(selectables, 0), 1)]

\* the listeners of `node` for events of `type`, in registration order
listenersOf(node, type) ==
    CASE type = "onClick" ->
            (IF node \in Range(selectables) THEN <<"select">> ELSE <<>>) \o listeners[node]
      [] type = "onPointerMissed" ->
            IF node = "scene" THEN <<"missed">> ELSE <<>>

invoke(kind, node, p, st, mode, isDisabled) ==
    LET st1 == logged(st, node, kind, p)
    IN CASE kind = "select" -> onClick(node, p, st1, mode, isDisabled)
         [] kind = "missed" -> onPointerMissed(p, st1, isDisabled)
         [] kind = "stop"   -> [p |-> stopPropagation(p), st |-> st1]
         [] kind = "plain"  -> [p |-> p, st |-> st1]

----------------------------------------------------------------------------
(* Dispatch.                                                               *)

RECURSIVE runListeners(_, _, _, _, _, _)
runListeners(array, i, node, r, mode, isDisabled) ==
    IF i > Len(array) THEN r
    ELSE runListeners(array, i + 1, node,
                      invoke(array[i], node, r.p, r.st, mode, isDisabled),
                      mode, isDisabled)

\* Object3D.dispatchEvent: when the node has listeners for event.type it sets
\* event.target = this, calls them over a copy of the listener array, and
\* resets event.target = null
dispatchEvent(node, r, mode, isDisabled) ==
    LET array == listenersOf(node, proxyGet(r.p, "type"))
    IN IF array = <<>> THEN r
       ELSE LET called == runListeners(array, 1, node,
                              [r EXCEPT !.p = proxySet(r.p, "target", node)],
                              mode, isDisabled)
            IN [called EXCEPT !.p = proxySet(called.p, "target", NoNode)]

\* a walk that ends below the node without parent
RECURSIVE bubble_belowRoot(_, _, _, _)
bubble_belowRoot(target, r, mode, isDisabled) ==
    IF parent[target] # NoNode /\ ~proxyGet(r.p, "cancelBubble")
    THEN LET visited == dispatchEvent(target,
                            [r EXCEPT !.p = proxySet(r.p, "currentTarget", target)],
                            mode, isDisabled)
         IN IF proxyGet(visited.p, "cancelBubble") THEN visited
            ELSE bubble_belowRoot(parent[target], visited, mode, isDisabled)
    ELSE r

\* a walk that delivers to the first node only
bubble_targetOnly(target, r, mode, isDisabled) ==
    dispatchEvent(target, [r EXCEPT !.p = proxySet(r.p, "currentTarget", target)],
                  mode, isDisabled)

\* dispatchEventBubbled, the while loop over target.parent
RECURSIVE bubble(_, _, _, _)
bubble(target, r, mode, isDisabled) ==
    IF target # NoNode /\ ~proxyGet(r.p, "cancelBubble")
    THEN LET visited == dispatchEvent(target,
                            [r EXCEPT !.p = proxySet(r.p, "currentTarget", target)],
                            mode, isDisabled)
         IN IF proxyGet(visited.p, "cancelBubble") THEN visited
            ELSE bubble(parent[target], visited, mode, isDisabled)
    ELSE r

dispatchEventBubbled(object, r, mode, isDisabled) ==
    IF proxyGet(r.p, "bubbles")
    THEN bubble(object, r, mode, isDisabled)
    ELSE dispatchEvent(object, r, mode, isDisabled)

----------------------------------------------------------------------------
(* Islands of the selection: computeIslands, and useIslands, which keeps    *)
(* the islands list up to date through useItemEffect.  A state `is` is the  *)
(* record [islands, destructors].                                           *)

\* computeIslands: for (const object of objects) ...
RECURSIVE computeLoop(_, _, _)
computeLoop(list, i, found) ==
    IF i > Len(list) THEN found
    ELSE IF \E k \in 1..Len(found) : isDescendantOf(list[i], found[k], {})
         THEN computeLoop(list, i + 1, found)
         ELSE computeLoop(list, i + 1, Append(found, list[i]))

\* a computeIslands that also drops the islands below a new island
computeIslands_antichain(list) ==
    LET found == computeLoop(list, 1, <<>>)
    IN SelectSeq(found, LAMBDA x : ~\E k \in 1..Len(found) : isDescendantOf(x, found[k], {}))

computeIslands(list) == computeLoop(list, 1, <<>>)

\* "remove islands that are no longer islands"
RECURSIVE dropBelow(_, _, _)
dropBelow(list, i, object) ==
    IF i >= Len(list) THEN list
    ELSE IF isDescendantOf(list[i + 1], object, {})
         THEN dropBelow(spliceOut(list, i), i, object)
         ELSE dropBelow(list, i + 1, object)

\* "remove objects that are children of another object in objectsNowIslands"
RECURSIVE dropNested(_, _)
dropNested(list, i) ==
    IF i >= Len(list) THEN list
    ELSE IF \E k \in 1..Len(list) : isDescendantOf(list[i + 1], list[k], {})
         THEN dropNested(spliceOut(list, i), i)
         ELSE dropNested(list, i + 1)

\* useItemEffect onInsert with the callback of useIslands
onInsert(is, object) ==
    IF object \in Range(is.islands) THEN is
    ELSE IF \E k \in 1..Len(is.islands) : isDescendantOf(object, is.islands[k], {})
         THEN is
    ELSE [islands |-> dropBelow(Append(is.islands, object), 0, object),
          destructors |-> is.destructors \cup {object}]

\* useItemEffect onDelete: the destructor the callback of useIslands returned
onDelete(is, object, list) ==
    IF object \notin is.destructors THEN is
    ELSE LET objectsNowIslands ==
                 dropNested(SelectSeq(list, LAMBDA child : isDescendantOf(child, object, {})), 0)
             index == indexOf(is.islands, object)
         IN [islands |-> IF index # -1
                         THEN SubSeq(is.islands, 1, index) \o objectsNowIslands
                              \o SubSeq(is.islands, index + 2, Len(is.islands))
                         ELSE is.islands,
             destructors |-> is.destructors \ {object}]

\* useItemEffect effect body: for (const item of list) onInsert(item)
RECURSIVE insertAll(_, _, _)
insertAll(is, list, i) ==
    IF i > Len(list) THEN is ELSE insertAll(onInsert(is, list[i]), list, i + 1)

\* useIslands at mount: the memo, then the effect of useItemEffect
useIslands(list) ==
    insertAll([islands |-> computeIslands(list), destructors |-> {}], list, 1)

----------------------------------------------------------------------------
(* ObjectTransformer.  The transforms themselves are left out: the model    *)
(* keeps which objects have a start transform and which objects             *)
(* #applyTransform moves.                                                   *)

\* delta: the transform the call was given; composed: the composition of
\* the transforms given to the calls of the running drag
NotApplied == [moved |-> <<>>, thrown |-> FALSE, delta |-> 0, composed |-> 0]

\* useTransformableObjects with islandTransform off: the selection list
transformed == objects

\* Matrix4.multiply, Matrix4.invert, over translations along one axis
multiply(a, b) == a + b
invert(a) == 0 - a

\* TransformCoordinateSystem
CoordinateSystems == {"local", "global"}

\* object.matrixWorld, every matrix up to date: the product of the local
\* matrices from the scene down to the object
RECURSIVE matrixWorld(_, _)
matrixWorld(at, object) ==
    IF parent[object] = NoNode THEN at[object]
    ELSE multiply(matrixWorld(at, parent[object]), at[object])

\* matrix.setPosition(new Vector3()): the rotation and scale part of a
\* matrix, which for a translation is the identity
setPositionZero(matrix) == 0

\* a getCurrentTransform that returns object.matrix in both coordinate systems
getCurrentTransform_matrix(at, object, system) == at[object]

\* getCurrentTransform
getCurrentTransform(at, object, system) ==
    IF system = "local" THEN at[object] ELSE matrixWorld(at, object)

\* getDeltaTransform
getDeltaTransform(at, object, system, delta) ==
    IF system = "local" THEN delta
    ELSE multiply(invert(setPositionZero(matrixWorld(at, object))), delta)

\* dispatchEventBubbled: whether the walk from `object` up the parents
\* dispatches at `node` (no listener here stops the propagation)
RECURSIVE bubblesTo(_, _)
bubblesTo(object, node) ==
    IF object = NoNode THEN FALSE
    ELSE IF object = node THEN TRUE
    ELSE bubblesTo(parent[object], node)

\* useIsTransforming on the scene: every bubbling onTransformStart that
\* reaches the scene sets the state, every onTransformComplete resets it
RECURSIVE useIsTransforming(_, _)
useIsTransforming(state, dispatched) ==
    IF dispatched = <<>> THEN state
    ELSE LET e == Head(dispatched)
             reaches == IF e.bubbles THEN bubblesTo(e.object, "scene") ELSE e.object = "scene"
         IN useIsTransforming(
                IF reaches /\ e.type = "onTransformStart" THEN TRUE
                ELSE IF reaches /\ e.type = "onTransformComplete" THEN FALSE
                ELSE state,
                Tail(dispatched))

\* dispatchEventBubbled(obj, { type, bubbles: true }) for every tracked object
dispatchToTracked(type) ==
    [i \in 1..Len(transformed) |-> [object |-> transformed[i], type |-> type, bubbles |-> TRUE]]

\* an #applyTransform that moves the directly transformed objects as well
RECURSIVE applyTransform_all(_, _, _, _)
applyTransform_all(i, result, direct, delta) ==
    IF i > Len(transformed) THEN result
    ELSE IF transformed[i] \notin DOMAIN startTransforms
         THEN [result EXCEPT !.thrown = TRUE]
    ELSE applyTransform_all(i + 1,
             [result EXCEPT !.moved = Append(@, transformed[i]),
                            !.position[transformed[i]] =
                                multiply(startTransforms[transformed[i]].transform,
                                         getDeltaTransform(result.position, transformed[i],
                                                           coordinateSystem, delta))],
             direct, delta)

\* #applyTransform: for (const object of this.transformed) ...; the loop ends
\* at the first object without a start transform, with an Error.  result is
\* [moved, thrown, position].
RECURSIVE applyTransform(_, _, _, _)
applyTransform(i, result, direct, delta) ==
    IF i > Len(transformed) THEN result
    ELSE IF transformed[i] \in Range(direct)
         THEN applyTransform(i + 1, result, direct, delta)
    ELSE IF transformed[i] \notin DOMAIN startTransforms
         THEN [result EXCEPT !.thrown = TRUE]
    ELSE applyTransform(i + 1,
             [result EXCEPT !.moved = Append(@, transformed[i]),
                            !.position[transformed[i]] =
                                multiply(startTransforms[transformed[i]].transform,
                                         getDeltaTransform(result.position, transformed[i],
                                                           coordinateSystem, delta))],
             direct, delta)

----------------------------------------------------------------------------
(* Selection events: useRaiseSelectionEvents dispatches onSelected and      *)
(* onDeselected from a useItemEffect on the selection list.  A state `st`   *)
(* is the record [events, subscribed].                                      *)

\* the objects the select tool is clicked on
Selected == {"b1", "b2", "b11"}

NotRaised == [before |-> {}, events |-> <<>>]

\* useItemEffect onInsert: the callback dispatches onSelected and returns a
\* destructor, which is added to the destructors of the item
raiseInsert(st, object) ==
    [events |-> Append(st.events, <<object, "onSelected">>),
     subscribed |-> [st.subscribed EXCEPT ![object] = @ + 1]]

\* useItemEffect onDelete: every destructor of the item dispatches
\* onDeselected; the destructors of the item are dropped
raiseDelete(st, object) ==
    [events |-> st.events \o [i \in 1..st.subscribed[object] |-> <<object, "onDeselected">>],
     subscribed |-> [st.subscribed EXCEPT ![object] = 0]]

\* the list emits "delete" for the items a splice removed, in order
RECURSIVE raiseDeletes(_, _, _)
raiseDeletes(st, removed, i) ==
    IF i > Len(removed) THEN st
    ELSE raiseDeletes(raiseDelete(st, removed[i]), removed, i + 1)

\* useItemEffect effect body: for (const item of list) onInsert(item)
RECURSIVE raiseAll(_, _, _)
raiseAll(st, list, i) ==
    IF i > Len(list) THEN st
    ELSE raiseAll(raiseInsert(st, list[i]), list, i + 1)

\* SelectTool onClick, the switch on the mode: the list after the click and
\* the events of the splice or push, [list, st]
selectClick(list, st, object, mode) ==
    LET index == indexOf(list, object)
        includes == index # -1
        removeIt == [list |-> spliceOut(list, index), st |-> raiseDelete(st, object)]
        pushIt == [list |-> Append(list, object), st |-> raiseInsert(st, object)]
        same == [list |-> list, st |-> st]
    IN CASE mode = "replace" ->
               IF list = <<object>> THEN same
               ELSE [list |-> <<object>>,
                     st |-> raiseInsert(raiseDeletes(st, list, 1), object)]
         [] mode = "toggle" -> IF includes THEN removeIt ELSE pushIt
         [] mode = "add" -> IF includes THEN same ELSE pushIt
         [] mode = "remove" -> IF includes THEN removeIt ELSE same

----------------------------------------------------------------------------
(* Geometry edit: the proxies of the vertices and faces of the mesh being   *)
(* edited.  The proxies are rendered below helper.obj.                      *)

\* the vertices of the edit mesh, its faces, and helper.obj
Vertices == {"v1", "v2", "v3"}
Faces == {"f1"}
HelperObj == "mesh"

\* what the component of a vertex rendered: not run yet, an empty fragment,
\* the error it threw, or an Instance at a position
NotRendered == [result |-> "unmounted", position |-> 0]
Nothing == [result |-> "nothing", position |-> 0]
ExpectedSingleIndex == [result |-> "expected single index", position |-> 0]
Instance(at) == [result |-> "instance", position |-> at]

\* info.geometry.display.mesh.vertex(index): the position of a display vertex
vertex(index) == 10 * index

\* a GeometryEditVertex that takes the first of several display indices
GeometryEditVertex_first(indices_display) ==
    IF Len(indices_display) = 0 THEN Nothing
    ELSE Instance(vertex(indices_display[1]))

\* GeometryEditVertex: what the component renders, or that it throws
GeometryEditVertex(indices_display) ==
    IF Len(indices_display) = 0 THEN Nothing
    ELSE IF Len(indices_display) > 1 THEN ExpectedSingleIndex
    ELSE Instance(vertex(indices_display[1]))

\* event.target as a listener on `node` sees it, for an event dispatched
\* from `origin`: Object3D.dispatchEvent sets event.target = this
listenerTarget(node, origin) == node

\* the vertex proxies that exist: the vertices that rendered an Instance
vertexProxies(ge) ==
    {v \in Vertices : ge.rendered[v].result = "instance"}

\* useUpdateWithGeometry callback1 of a vertex proxy (disableIfTransforming
\* is the proxy's ref): whether the callback runs
vertexUpdates(ge, v) == v \notin Range(ge.transformingObjects)

\* useUpdateWithGeometry callback1 of a face proxy (no disableIfTransforming)
faceUpdates(ge, f) == TRUE

----------------------------------------------------------------------------
(* The editor: one scene with the selectable scopes A, B and C mounted,    *)
(* SelectControls mounted, and a transform gizmo that can be dragged.      *)

MaxTimers == 1

RECURSIVE Orders(_)
Orders(S) ==
    IF S = {} THEN {<<>>}
    ELSE UNION {{<<x>> \o rest : rest \in Orders(S \ {x})} : x \in S}

NoMode == "none"

\* useLocalSelectableTo has not been called yet
NotLocated == "none"

\* no event has been intercepted yet
NoEvent == "none"

program == [sel |-> selection, after |-> insertAfter, log |-> <<>>]

\* what is remembered of the run: the last input event (kind, mode, object,
\* its bubbles flag, whether selection was disabled when it was handled) and
\* facts about the run so far: whether it consists of replace clicks only,
\* how many toggle clicks on the same object end it, the members of every
\* list before a pointer-missed event or before the first click of a toggle
\* run, and how far the run follows the mode scenario
remember(kind, mode, object, bubbles) ==
    [kind |-> kind, mode |-> mode, object |-> object, bubbles |-> bubbles,
     disabled |-> disabled,
     dispatched |-> <<>>,
     onlyReplace |-> last.onlyReplace /\ kind = "click" /\ mode = "replace",
     toggleRun |-> IF kind = "click" /\ mode = "toggle"
                   THEN IF last.kind = "click" /\ last.mode = "toggle"
                           /\ last.object = object /\ last.toggleRun = 1
                        THEN 2 ELSE 1
                   ELSE 0,
     before |-> IF kind = "click" /\ mode = "toggle" /\ last.kind = "click"
                   /\ last.mode = "toggle" /\ last.object = object
                   /\ last.toggleRun = 1
                THEN last.before
                ELSE IF kind = "missed" \/ (kind = "click" /\ mode = "toggle")
                     THEN [s \in Containers |-> Range(selection[s])]
                     ELSE [s \in Containers |-> {}],
     scenario |-> CASE last.scenario = 0 /\ last.kind = "none" /\ kind = "click"
                         /\ mode = "replace" /\ object = "b1" -> 1
                    [] last.scenario = 1 /\ kind = "click"
                         /\ mode = "add" /\ object = "b2" -> 2
                    [] last.scenario = 2 /\ kind = "click"
                         /\ mode = "remove" /\ object = "b1" -> 3
                    [] last.scenario = 3 /\ kind = "missed" -> 4
                    [] OTHER -> -1]

\* the state after mount, given the registration order of the scopes, the
\* selection the transform gizmo finds when it mounts, and the index map
\* of the mesh being edited
MountedOn(order, selected, map) ==
    /\ selection = [s \in Containers |-> <<>>]
    /\ insertAfter = [s \in Containers |-> [o \in Hittable |-> Undefined]]
    /\ selectables = order
    /\ disabled = FALSE
    /\ dragging = FALSE
    /\ timers = 0
    /\ listeners = [n \in Nodes |-> <<>>]
    /\ log = <<>>
    /\ event = NoEvent
    /\ objects = selected
    /\ islands = useIslands(selected).islands
    /\ destructors = useIslands(selected).destructors
    /\ directlyTransformed = <<>>
    /\ startTransforms = <<>>
    /\ position = [o \in Nodes |-> 0]
    /\ startTransform = 0
    /\ applied = NotApplied
    /\ coordinateSystem = "local"
    /\ isTransforming = FALSE
    /\ toolMode = "replace"
    /\ raised = NotRaised
    /\ subscribed = [o \in Selected |-> 0]
    /\ membership = [insertAfter |-> Undefined, member |-> NoNode,
                     preceded |-> [m \in Members |-> Undefined]]
    /\ geometryEdit = [map |-> map,
                       rendered |-> [v \in Vertices |-> NotRendered],
                       transformingObjects |-> <<>>,
                       dragging |-> NoNode,
                       updates |-> 0,
                       computed |-> [p \in Vertices \cup Faces |-> 0]]
    /\ located = NotLocated
    /\ last = [kind |-> "none", mode |-> NoMode, object |-> NoNode,
               bubbles |-> FALSE, disabled |-> FALSE, dispatched |-> <<>>,
               onlyReplace |-> TRUE,
               toggleRun |-> 0, before |-> [s \in Containers |-> {}],
               scenario |-> 0]

\* the state after mount with no mesh being edited
MountedWith(order, selected) == MountedOn(order, selected, [v \in Vertices |-> <<>>])

\* the state after mount with nothing selected
Mounted(order) == MountedWith(order, <<>>)

\* the scopes register in any order (each waits for its container ref)
Init == \E order \in Orders(Containers) : Mounted(order)

\* the result of a click that hits `object` while selectControls.mode = mode
clicked(st, object, mode, isDisabled) ==
    dispatchEventBubbled(object, [p |-> threeEvent("onClick", object, TRUE), st |-> st],
                         mode, isDisabled)

\* the result of a click that hits nothing: dispatched at the scene root
missed(st, isDisabled) ==
    dispatchEventBubbled("scene",
                         [p |-> threeEvent("onPointerMissed", NoNode, FALSE), st |-> st],
                         NoMode, isDisabled)

\* the canvas reports a click on a scene object
Click(object, mode) ==
    \E r \in {clicked(program, object, mode, disabled)} :
       /\ selection' = r.st.sel
       /\ insertAfter' = r.st.after
       /\ log' = r.st.log
       /\ event' = r.p
       /\ last' = remember("click", mode, object, TRUE)
       /\ UNCHANGED <<selectables, disabled, dragging, timers, listeners>>
       /\ UNCHANGED toolVars

\* the canvas reports a click on the background
PointerMissed ==
    \E r \in {missed(program, disabled)} :
       /\ selection' = r.st.sel
       /\ insertAfter' = r.st.after
       /\ log' = r.st.log
       /\ event' = r.p
       /\ last' = remember("missed", NoMode, NoNode, FALSE)
       /\ UNCHANGED <<selectables, disabled, dragging, timers, listeners>>
       /\ UNCHANGED toolVars

\* TransformComponent onStart (gizmo mouse down)
onStart ==
    /\ disabled' = TRUE
    /\ dragging' = TRUE
    /\ last' = remember("start", NoMode, NoNode, FALSE)
    /\ UNCHANGED <<selection, insertAfter, selectables, timers, listeners, log, event>>
    /\ UNCHANGED toolVars

\* TransformComponent onComplete (gizmo mouse up)
onComplete ==
    /\ dragging
    /\ timers < MaxTimers
    /\ dragging' = FALSE
    /\ timers' = timers + 1
    /\ last' = remember("complete", NoMode, NoNode, FALSE)
    /\ UNCHANGED <<selection, insertAfter, selectables, disabled, listeners, log, event>>
    /\ UNCHANGED toolVars

\* a timer callback that leaves the flag as it is
Timeout_keep ==
    /\ timers > 0
    /\ timers' = timers - 1
    /\ last' = remember("timer", NoMode, NoNode, FALSE)
    /\ UNCHANGED <<selection, insertAfter, selectables, disabled, dragging, listeners, log, event>>
    /\ UNCHANGED toolVars

\* the callback of setTimeout(() => selectControlsInfo.disabled = false, 100)
Timeout ==
    /\ timers > 0
    /\ timers' = timers - 1
    /\ disabled' = FALSE
    /\ last' = remember("timer", NoMode, NoNode, FALSE)
    /\ UNCHANGED <<selection, insertAfter, selectables, dragging, listeners, log, event>>
    /\ UNCHANGED toolVars

\* clicks on the scene, no gizmo drag
Next ==
    \/ \E object \in Hittable, mode \in Modes : Click(object, mode)
    \/ PointerMissed

Spec == Init /\ [][Next]_vars

\* clicks on the scene interleaved with gizmo drags; the scopes registered
\* in the order of their mount effects (children first)
InitDrag == Mounted(<<"C", "A", "B">>)

NextDrag ==
    \/ \E object \in Hittable, mode \in Modes : Click(object, mode)
    \/ PointerMissed
    \/ onStart
    \/ onComplete
    \/ Timeout

SpecDrag == InitDrag /\ [][NextDrag]_vars

\* the same, with every scheduled timer callback run in the end
SpecDragFair == SpecDrag /\ WF_vars(Timeout)

----------------------------------------------------------------------------
(* The bubbling layer on its own: a scene inside an InteractiveCanvas with   *)
(* no Selectable mounted, whose objects get 'onClick' listeners through     *)
(* useEvent ("plain": a listener that only observes) and useEventsIgnored   *)
(* ("stop": the shared listener e => e.stopPropagation()).                  *)

MaxListeners == 2

\* the objects that get listeners: one parent chain of the scene
Chain == {"c1", "C", "A", "scene"}

ListenerKinds == {"plain", "stop"}

\* useEvent effect: obj.addEventListener(event, listener); three.js adds a
\* listener function once, and useEventsIgnored always passes the same one
addEventListener(node, kind) ==
    /\ Len(listeners[node]) < MaxListeners
    /\ kind = "stop" => kind \notin Range(listeners[node])
    /\ listeners' = [listeners EXCEPT ![node] = Append(@, kind)]
    /\ log' = <<>>
    /\ event' = NoEvent
    /\ last' = remember("listen", NoMode, node, FALSE)
    /\ UNCHANGED <<selection, insertAfter, selectables, disabled, dragging, timers>>
    /\ UNCHANGED toolVars

\* useEvent cleanup: obj.removeEventListener(event, listener)
removeEventListener(node, index) ==
    /\ index < Len(listeners[node])
    /\ listeners' = [listeners EXCEPT ![node] = spliceOut(@, index)]
    /\ log' = <<>>
    /\ event' = NoEvent
    /\ last' = remember("listen", NoMode, node, FALSE)
    /\ UNCHANGED <<selection, insertAfter, selectables, disabled, dragging, timers>>
    /\ UNCHANGED toolVars

\* the canvas reports a click on `object`, or a caller dispatches an event
\* at `object` with the given bubbles flag
Dispatch(object, bubbles) ==
    \E r \in {dispatchEventBubbled(object,
                 [p |-> threeEvent("onClick", object, bubbles), st |-> program],
                 NoMode, disabled)} :
       /\ log' = r.st.log
       /\ event' = r.p
       /\ last' = remember("dispatch", NoMode, object, bubbles)
       /\ UNCHANGED <<selection, insertAfter, selectables, disabled, dragging, timers,
                      listeners>>
       /\ UNCHANGED toolVars

InitBubble == Mounted(<<>>)

NextBubble ==
    \/ \E node \in Chain, kind \in ListenerKinds : addEventListener(node, kind)
    \/ \E node \in Chain, index \in 0..(MaxListeners - 1) : removeEventListener(node, index)
    \/ \E object \in Chain, bubbles \in BOOLEAN : Dispatch(object, bubbles)

SpecBubble == InitBubble /\ [][NextBubble]_vars

----------------------------------------------------------------------------
(* The synthetic event on its own: useThreeFiberEvents intercepts a         *)
(* framework event and wraps it; listeners then write fields of the         *)
(* synthetic event and call its cancellation method.                        *)

\* the fields a listener writes; userData is no field of the framework event
Written == {"cancelBubble", "stopped", "object", "target", "currentTarget", "userData"}

Values(prop) ==
    IF prop \in {"cancelBubble", "stopped"} THEN BOOLEAN ELSE {"c1", "A"}

\* an event has been intercepted and is being delivered
intercepted == last.kind \in {"intercept", "write", "cancel"}

\* setupEvent handler: new Proxy({...event, type: eventName}, ...)
Intercept(eventName, object) ==
    /\ event' = threeEvent(eventName, object, eventName = "onClick")
    /\ last' = remember("intercept", NoMode, object, eventName = "onClick")
    /\ UNCHANGED <<selection, insertAfter, selectables, disabled, dragging, timers,
                   listeners, log>>
    /\ UNCHANGED toolVars

\* a listener executes event[prop] = value (remembered: the field written)
Write(prop, value) ==
    /\ intercepted
    /\ event' = proxySet(event, prop, value)
    /\ last' = remember("write", NoMode, prop, FALSE)
    /\ UNCHANGED <<selection, insertAfter, selectables, disabled, dragging, timers,
                   listeners, log>>
    /\ UNCHANGED toolVars

\* a listener executes event.stopPropagation()
Cancel ==
    /\ intercepted
    /\ event' = stopPropagation(event)
    /\ last' = remember("cancel", NoMode, NoNode, FALSE)
    /\ UNCHANGED <<selection, insertAfter, selectables, disabled, dragging, timers,
                   listeners, log>>
    /\ UNCHANGED toolVars

NextProxy ==
    \/ \E object \in {"c1", "a1"} : Intercept("onClick", object)
    \/ Intercept("onPointerMissed", NoNode)
    \/ \E prop \in Written : \E value \in Values(prop) : Write(prop, value)
    \/ Cancel

SpecProxy == InitBubble /\ [][NextProxy]_vars

----------------------------------------------------------------------------
(* Looking up the scope of an object: useLocalSelectableTo, as the transform *)
(* gizmo calls it, over any set of scopes registered so far.                *)

Thrown == "error"

\* a deepestChild that answers the first object of its argument
deepestChild_first(list) == list[1]

RECURSIVE deepestLoop(_, _)
deepestLoop(list, i) ==
    IF i >= Len(list) THEN list
    ELSE IF \E k \in 1..Len(list) : isDescendantOf(list[k], list[i + 1], {})
         THEN deepestLoop(spliceOut(list, i), i)
         ELSE deepestLoop(list, i + 1)

\* deepestChild: drop every object that has a descendant in the list, answer
\* the first that is left
deepestChild(list) == deepestLoop(list, 0)[1]

\* object is NoNode when the ref it was given is not resolved yet
useLocalSelectableTo(object) ==
    LET enclosing == IF object = NoNode THEN <<>>
                     ELSE SelectSeq(selectables, LAMBDA s : isDescendantOf(object, s, {}))
    IN IF enclosing = <<>> THEN Thrown
       ELSE deepestChild(enclosing)

\* a component calls useLocalSelectableTo(object)
Locate(object) ==
    /\ located' = useLocalSelectableTo(object)
    /\ last' = remember("locate", NoMode, object, FALSE)
    /\ UNCHANGED editorVars
    /\ UNCHANGED <<geometryEdit, membership, raiseVars, objects, islands, destructors, transformerVars>>

\* a component calls useLocalSelectableTo(ref) before the ref is resolved
LocateRef ==
    /\ located' = useLocalSelectableTo(NoNode)
    /\ last' = remember("locateRef", NoMode, NoNode, FALSE)
    /\ UNCHANGED editorVars
    /\ UNCHANGED <<geometryEdit, membership, raiseVars, objects, islands, destructors, transformerVars>>

\* any of the scopes may have registered so far, in any order
InitLocal ==
    \E mounted \in SUBSET Containers : \E order \in Orders(mounted) : Mounted(order)

NextLocal ==
    \/ \E object \in Nodes : Locate(object)
    \/ LocateRef

SpecLocal == InitLocal /\ [][NextLocal]_vars

----------------------------------------------------------------------------
(* The transform gizmo's islands while objects enter and leave the          *)
(* selection list it was mounted on.                                        *)

IslandObjects == {"b1", "b11", "b111", "b2"}

\* the selection list gets an object (a click handler pushes it; the
\* handlers return at once while the selection is disabled)
Insert(object) ==
    /\ ~disabled
    /\ object \notin Range(objects)
    /\ objects' = Append(objects, object)
    /\ \E is \in {onInsert([islands |-> islands, destructors |-> destructors], object)} :
          islands' = is.islands /\ destructors' = is.destructors
    /\ last' = remember("insert", NoMode, object, FALSE)
    /\ UNCHANGED editorVars
    /\ UNCHANGED <<geometryEdit, membership, raiseVars, located, transformerVars>>

\* the selection list loses an object (a click handler or a clear splices it)
Delete(object) ==
    /\ ~disabled
    /\ object \in Range(objects)
    /\ objects' = spliceOut(objects, indexOf(objects, object))
    /\ \E is \in {onDelete([islands |-> islands, destructors |-> destructors], object,
                           spliceOut(objects, indexOf(objects, object)))} :
          islands' = is.islands /\ destructors' = is.destructors
    /\ last' = remember("delete", NoMode, object, FALSE)
    /\ UNCHANGED editorVars
    /\ UNCHANGED <<geometryEdit, membership, raiseVars, located, transformerVars>>

\* the component renders again: the effect of useItemEffect runs again, the
\* callback being a new function on every render
Rerender ==
    /\ \E is \in {insertAll([islands |-> islands, destructors |-> destructors], objects, 1)} :
          islands' = is.islands /\ destructors' = is.destructors
    /\ last' = remember("render", NoMode, NoNode, FALSE)
    /\ UNCHANGED editorVars
    /\ UNCHANGED <<geometryEdit, membership, raiseVars, objects, located, transformerVars>>

\* the gizmo mounts on any selection
InitIslands ==
    \E selected \in UNION {Orders(S) : S \in SUBSET IslandObjects} :
        MountedWith(<<>>, selected)

NextIslands ==
    \/ \E object \in IslandObjects : Insert(object)
    \/ \E object \in IslandObjects : Delete(object)
    \/ Rerender

SpecIslands == InitIslands /\ [][NextIslands]_vars

----------------------------------------------------------------------------
(* One ObjectTransformer over the selection list it was made with, driven   *)
(* by the drags of the gizmo: TransformComponent's onStart, onTransform and *)
(* onComplete with the ObjectTransformer method each of them calls.  The    *)
(* gizmo takes one drag at a time.  No object has listeners here, so the    *)
(* onTransformStart, onTransform and onTransformComplete events reach       *)
(* nobody.                                                                  *)

MaxDrags == 3

\* how far the gizmo takes an object, and by how much at a time
MaxPos == 2
Steps == {1}

\* the objects that enter and leave the tracked list
TransformObjects == {"b1", "b2", "b11"}

\* onStart: ObjectTransformer.start
start(directlyTransformedObj) ==
    /\ ~dragging
    /\ directlyTransformedObj \in Range(transformed)
    /\ Len(directlyTransformed) < MaxDrags
    /\ disabled' = TRUE
    /\ dragging' = TRUE
    /\ startTransform' = getCurrentTransform(position, directlyTransformedObj, coordinateSystem)
    /\ directlyTransformed' = Append(directlyTransformed, directlyTransformedObj)
    /\ startTransforms' =
           [o \in DOMAIN startTransforms \cup Range(transformed) |->
               IF o \in Range(transformed)
               THEN [transform |-> getCurrentTransform(position, o, coordinateSystem),
                     drag |-> Len(directlyTransformed) + 1]
               ELSE startTransforms[o]]
    /\ applied' = NotApplied
    /\ isTransforming' = useIsTransforming(isTransforming, dispatchToTracked("onTransformStart"))
    /\ last' = [remember("start", NoMode, directlyTransformedObj, FALSE)
                   EXCEPT !.dispatched = dispatchToTracked("onTransformStart")]
    /\ UNCHANGED <<selection, insertAfter, selectables, timers, listeners, log, event>>
    /\ UNCHANGED <<geometryEdit, membership, raiseVars, objects, islands, destructors, located, position, coordinateSystem>>

\* the gizmo moves the object it is attached to and reports the change;
\* onTransform: ObjectTransformer.transform
transform(step) ==
    /\ dragging
    /\ LET object == directlyTransformed[Len(directlyTransformed)]
           dragged == [position EXCEPT ![object] = @ + step]
           endTransform == getCurrentTransform(dragged, object, coordinateSystem)
           deltaTransform == multiply(invert(endTransform), startTransform)
       IN /\ dragged[object] \in -MaxPos..MaxPos
          /\ startTransform' = endTransform
          /\ \E result \in {applyTransform(1, [moved |-> <<>>, thrown |-> FALSE, position |-> dragged],
                                           directlyTransformed, deltaTransform)} :
                /\ position' = result.position
                /\ applied' = [moved |-> result.moved, thrown |-> result.thrown,
                               delta |-> deltaTransform,
                               composed |-> multiply(applied.composed, deltaTransform)]
                /\ \E dispatched \in {IF result.thrown THEN <<>>
                                       ELSE dispatchToTracked("onTransform")} :
                      /\ isTransforming' = useIsTransforming(isTransforming, dispatched)
                      /\ last' = [remember("transform", NoMode, NoNode, FALSE)
                                     EXCEPT !.dispatched = dispatched]
    /\ UNCHANGED editorVars
    /\ UNCHANGED <<geometryEdit, membership, raiseVars, objects, islands, destructors, located, directlyTransformed, startTransforms,
                   coordinateSystem>>

\* onComplete: ObjectTransformer.complete, then the timer is set (not when
\* complete threw)
complete ==
    /\ dragging
    /\ timers < MaxTimers
    /\ dragging' = FALSE
    /\ LET object == directlyTransformed[Len(directlyTransformed)]
           endTransform == getCurrentTransform(position, object, coordinateSystem)
           deltaTransform == multiply(invert(endTransform), startTransform)
       IN \E result \in {applyTransform(1, [moved |-> <<>>, thrown |-> FALSE, position |-> position],
                                        directlyTransformed, deltaTransform)} :
             /\ position' = result.position
             /\ applied' = [moved |-> result.moved, thrown |-> result.thrown,
                            delta |-> deltaTransform,
                            composed |-> multiply(applied.composed, deltaTransform)]
             /\ timers' = IF result.thrown THEN timers ELSE timers + 1
             /\ \E dispatched \in {IF result.thrown THEN <<>>
                                    ELSE dispatchToTracked("onTransformComplete")} :
                   /\ isTransforming' = useIsTransforming(isTransforming, dispatched)
                   /\ last' = [remember("complete", NoMode, NoNode, FALSE)
                                  EXCEPT !.dispatched = dispatched]
    /\ startTransform' = 0
    /\ UNCHANGED <<selection, insertAfter, selectables, disabled, listeners, log, event>>
    /\ UNCHANGED <<geometryEdit, membership, raiseVars, objects, islands, destructors, located, directlyTransformed, startTransforms,
                   coordinateSystem>>

NextTransform ==
    \/ \E object \in TransformObjects : start(object)
    \/ \E step \in Steps : transform(step)
    \/ complete
    \/ Timeout
    \/ \E object \in TransformObjects : Insert(object)
    \/ \E object \in TransformObjects : Delete(object)

\* the gizmo mounts with nothing selected
InitTransform == MountedWith(<<>>, <<>>)

SpecTransform == InitTransform /\ [][NextTransform]_vars

----------------------------------------------------------------------------
(* The same drags on a selection that stays as it is, in the coordinate     *)
(* system chosen in the toolbar of the transform controls.  Right after the *)
(* start of a drag the gizmo may report a change although the object has    *)
(* not moved.                                                               *)

\* onTransform before the object has moved: the delta is the identity
transformStill ==
    /\ last.kind = "start"
    /\ transform(0)

\* the toolbar of TransformControls: setCoordinateSystem
setCoordinateSystem(value) ==
    /\ ~dragging
    /\ value # coordinateSystem
    /\ coordinateSystem' = value
    /\ last' = remember("coordinateSystem", NoMode, NoNode, FALSE)
    /\ UNCHANGED editorVars
    /\ UNCHANGED <<objects, islands, destructors, located, raiseVars, membership, geometryEdit>>
    /\ UNCHANGED <<directlyTransformed, startTransforms, position, startTransform, applied,
                   isTransforming>>

NextCoordinates ==
    \/ \E value \in CoordinateSystems : setCoordinateSystem(value)
    \/ \E object \in TransformObjects : start(object)
    \/ \E step \in Steps : transform(step)
    \/ transformStill
    \/ complete
    \/ Timeout

\* the gizmo mounts on a selection
InitCoordinates ==
    \E list \in UNION {Orders(S) : S \in SUBSET TransformObjects} : MountedWith(<<>>, list)

SpecCoordinates == InitCoordinates /\ [][NextCoordinates]_vars

----------------------------------------------------------------------------
(* The select tool with one selection list and useRaiseSelectionEvents     *)
(* mounted in SelectControls; no transform gizmo is mounted.                *)

MaxSubscriptions == 2

\* the modes the toolbar of SelectControls offers
ToolbarModes == {"replace", "add", "remove"}

\* SelectTool: the scene's onClick listener
SelectTool_onClick(object) ==
    /\ ~disabled
    /\ \E r \in {selectClick(objects, [events |-> <<>>, subscribed |-> subscribed], object, toolMode)} :
          /\ objects' = r.list
          /\ raised' = [before |-> Range(objects), events |-> r.st.events]
          /\ subscribed' = r.st.subscribed
    /\ last' = remember("select", toolMode, object, TRUE)
    /\ UNCHANGED editorVars
    /\ UNCHANGED <<geometryEdit, membership, islands, destructors, located, transformerVars, toolMode>>

\* SelectTool: the scene's onPointerMissed listener
SelectTool_onPointerMissed ==
    /\ ~disabled
    /\ objects' = <<>>
    /\ \E st \in {raiseDeletes([events |-> <<>>, subscribed |-> subscribed], objects, 1)} :
          /\ raised' = [before |-> Range(objects), events |-> st.events]
          /\ subscribed' = st.subscribed
    /\ last' = remember("deselect", NoMode, NoNode, FALSE)
    /\ UNCHANGED editorVars
    /\ UNCHANGED <<geometryEdit, membership, islands, destructors, located, transformerVars, toolMode>>

\* the toolbar's Select changes the mode: SelectControls renders again and
\* the effect of useItemEffect, whose callback is a new function, runs again
setMode(value) ==
    /\ value # toolMode
    /\ \A o \in Range(objects) : subscribed[o] < MaxSubscriptions
    /\ toolMode' = value
    /\ \E st \in {raiseAll([events |-> <<>>, subscribed |-> subscribed], objects, 1)} :
          /\ raised' = [before |-> Range(objects), events |-> st.events]
          /\ subscribed' = st.subscribed
    /\ last' = remember("mode", value, NoNode, FALSE)
    /\ UNCHANGED editorVars
    /\ UNCHANGED <<geometryEdit, membership, objects, islands, destructors, located, transformerVars>>

NextRaise ==
    \/ \E object \in Selected : SelectTool_onClick(object)
    \/ SelectTool_onPointerMissed
    \/ \E value \in ToolbarModes : setMode(value)

\* SelectionProvider: an empty selection list; the toolbar starts on replace
InitRaise == MountedWith(<<>>, <<>>)

SpecRaise == InitRaise /\ [][NextRaise]_vars

----------------------------------------------------------------------------
(* One useMembership hook on a list that other code changes as well.       *)

\* the elements other code puts into the list and takes out of it
Others == {"b11", "b111"}

\* the effect of useMembership runs (again): the cleanup of the previous run
\* takes its member out, then the body inserts `member`, which is NoNode
\* when the hook is given null
useMembership(member) ==
    /\ LET index == indexOf(objects, membership.member)
           list == IF membership.member # NoNode /\ index # -1
                   THEN spliceOut(objects, index) ELSE objects
           insertIndex == membershipInsertIndex(list, membership.insertAfter)
       IN /\ objects' = IF member = NoNode THEN list ELSE spliceIn(list, insertIndex, member)
          /\ membership' =
                [insertAfter |-> membershipMemory(list, insertIndex),
                 member |-> member,
                 preceded |-> IF member = NoNode THEN membership.preceded
                              ELSE [membership.preceded EXCEPT
                                       ![member] = membershipMemory(list, insertIndex)]]
    /\ last' = remember("member", NoMode, member, FALSE)
    /\ UNCHANGED editorVars
    /\ UNCHANGED <<islands, destructors, located, transformerVars, raiseVars, geometryEdit>>

\* other code pushes an element
listPush(item) ==
    /\ item \notin Range(objects)
    /\ objects' = Append(objects, item)
    /\ last' = remember("push", NoMode, item, FALSE)
    /\ UNCHANGED editorVars
    /\ UNCHANGED <<islands, destructors, located, transformerVars, raiseVars, membership, geometryEdit>>

\* other code puts an element at the front
listUnshift(item) ==
    /\ item \notin Range(objects)
    /\ objects' = <<item>> \o objects
    /\ last' = remember("unshift", NoMode, item, FALSE)
    /\ UNCHANGED editorVars
    /\ UNCHANGED <<islands, destructors, located, transformerVars, raiseVars, membership, geometryEdit>>

\* other code removes an element
listRemove(item) ==
    /\ item \in Range(objects)
    /\ objects' = spliceOut(objects, indexOf(objects, item))
    /\ last' = remember("remove", NoMode, item, FALSE)
    /\ UNCHANGED editorVars
    /\ UNCHANGED <<islands, destructors, located, transformerVars, raiseVars, membership, geometryEdit>>

NextMembership ==
    \/ \E member \in Members \cup {NoNode} : useMembership(member)
    \/ \E item \in Others : listPush(item)
    \/ \E item \in Others : listUnshift(item)
    \/ \E item \in Others : listRemove(item)

\* the hook mounts on a list other code may have filled
InitMembership ==
    \E list \in UNION {Orders(S) : S \in SUBSET Others} : MountedWith(<<>>, list)

SpecMembership == InitMembership /\ [][NextMembership]_vars

----------------------------------------------------------------------------
(* A mesh in geometry edit: its vertex proxies render, the helper reports   *)
(* geometry updates, and one proxy at a time is dragged with the gizmo.     *)

MaxUpdates == 2

\* the component of a vertex renders
renderVertex(v) ==
    /\ geometryEdit.rendered[v] = NotRendered
    /\ geometryEdit' = [geometryEdit EXCEPT
                           !.rendered[v] = GeometryEditVertex(geometryEdit.map[v])]
    /\ last' = remember("render", NoMode, v, FALSE)
    /\ UNCHANGED editorVars
    /\ UNCHANGED <<objects, islands, destructors, located, transformerVars, raiseVars, membership>>

\* a drag of the proxy starts: onTransformStart bubbles from the proxy to
\* helper.obj, whose listener pushes e.target
proxyTransformStart(p) ==
    /\ geometryEdit.dragging = NoNode
    /\ p \in vertexProxies(geometryEdit) \cup Faces
    /\ geometryEdit' = [geometryEdit EXCEPT
                           !.dragging = p,
                           !.transformingObjects = Append(@, listenerTarget(HelperObj, p))]
    /\ last' = remember("start", NoMode, p, FALSE)
    /\ UNCHANGED editorVars
    /\ UNCHANGED <<objects, islands, destructors, located, transformerVars, raiseVars, membership>>

\* the drag ends: onTransformComplete bubbles from the proxy to helper.obj,
\* whose listener takes e.target out
proxyTransformComplete ==
    /\ geometryEdit.dragging # NoNode
    /\ LET index == indexOf(geometryEdit.transformingObjects,
                            listenerTarget(HelperObj, geometryEdit.dragging))
       IN geometryEdit' = [geometryEdit EXCEPT
                              !.dragging = NoNode,
                              !.transformingObjects =
                                  IF index # -1 THEN spliceOut(@, index) ELSE @]
    /\ last' = remember("complete", NoMode, geometryEdit.dragging, FALSE)
    /\ UNCHANGED editorVars
    /\ UNCHANGED <<objects, islands, destructors, located, transformerVars, raiseVars, membership>>

\* the helper dispatches 'geometryUpdate' on helper.obj: the callback1 of
\* every proxy is called
geometryUpdate ==
    /\ geometryEdit.updates < MaxUpdates
    /\ geometryEdit' = [geometryEdit EXCEPT
          !.updates = @ + 1,
          !.computed = [p \in Vertices \cup Faces |->
              IF \/ p \in vertexProxies(geometryEdit) /\ vertexUpdates(geometryEdit, p)
                 \/ p \in Faces /\ faceUpdates(geometryEdit, p)
              THEN geometryEdit.updates + 1
              ELSE geometryEdit.computed[p]]]
    /\ last' = remember("geometryUpdate", NoMode, NoNode, FALSE)
    /\ UNCHANGED editorVars
    /\ UNCHANGED <<objects, islands, destructors, located, transformerVars, raiseVars, membership>>

NextGeometry ==
    \/ \E v \in Vertices : renderVertex(v)
    \/ \E p \in Vertices \cup Faces : proxyTransformStart(p)
    \/ proxyTransformComplete
    \/ geometryUpdate

\* a base vertex maps to no, one or two display vertices
InitGeometry ==
    \E map \in [Vertices -> {<<>>, <<1>>, <<2>>, <<1, 2>>}] : MountedOn(<<>>, <<>>, map)

SpecGeometry == InitGeometry /\ [][NextGeometry]_vars

----------------------------------------------------------------------------
(* Properties of the selection model.                                      *)

\* the registered scopes that enclose `object` (its container chain)
scopesOf(object) ==
    {s \in Range(selectables) : isDescendantOf(object, s, {})}

\* the registered scopes whose container lies in no other registered container
topLevel ==
    {s \in Range(selectables) :
        ~\E t \in Range(selectables) : isDescendantOf(s, t, {})}

\* the outermost scope around `object`: with no isolated scope in the scene,
\* the scope whose list is the global selection for `object`
globalScope(object) == CHOOSE s \in topLevel : s \in scopesOf(object)

handled(kind) == last.kind = kind /\ ~last.disabled

\* C1 (P1): in a run of replace-mode clicks that starts from the empty
\* selection, after every click the global list of the clicked object holds
\* exactly one object, the one just clicked.
C1_ReplaceExclusive ==
    (last.onlyReplace /\ last.kind = "click") =>
        selection[globalScope(last.object)] = <<last.object>>

\* a third replace click in a row has just selected b1 in B, after b2
C1_Witness ==
    /\ last.onlyReplace /\ last.kind = "click" /\ last.object = "b1"
    /\ selection["B"] = <<"b1">>
    /\ selection["A"] = <<"a1">>

\* C2: after any replace-mode click on O, from any reachable selection, the
\* global list holds exactly O.
C2_ReplaceFromAnyState ==
    (handled("click") /\ last.mode = "replace") =>
        selection[globalScope(last.object)] = <<last.object>>

\* C3 (P2): after two consecutive toggle clicks on the same object, every
\* global list has the members it had before the first of the two clicks.
C3_ToggleTwice ==
    (last.toggleRun = 2 /\ ~last.disabled) =>
        \A g \in topLevel : Range(selection[g]) = last.before[g]

\* two toggle clicks on b2 while b1 and b2 were selected: both still are
C3_Witness ==
    /\ last.toggleRun = 2 /\ last.object = "b2"
    /\ Range(selection["B"]) = {"b1", "b2"}

\* the global list after each step of the scenario replace b1, add b2,
\* remove b1, pointer-missed
C4_ScenarioStates ==
    /\ last.scenario = 1 => selection["B"] = <<"b1">>
    /\ last.scenario = 2 => selection["B"] = <<"b1", "b2">>
    /\ last.scenario = 3 => selection["B"] = <<"b2">>
    /\ last.scenario = 4 => selection["B"] = <<>>

\* what an add click and a remove click do to the global list
C4_AddRemoveStep ==
    (last'.kind = "click" /\ ~disabled) =>
        LET o == last'.object
            g == globalScope(o)
        IN /\ last'.mode = "add" =>
                selection'[g] = IF o \in Range(selection[g]) THEN selection[g]
                                ELSE Append(selection[g], o)
           /\ last'.mode = "remove" =>
                selection'[g] = SelectSeq(selection[g], LAMBDA x : x # o)

\* C4: the mode scenario replace b1, add b2, remove b1, pointer-missed gives
\* <<b1>>, <<b1, b2>>, <<b2>>, <<>>; and every add click appends the object
\* to the global list unless it is there, every remove click deletes
\* exactly the clicked object and keeps the order of the others.
C4_ModeScenario == [](C4_ScenarioStates) /\ [][C4_AddRemoveStep]_vars

\* the scenario has run to its end
C4_Witness == last.scenario = 4 /\ selection["B"] = <<>>

\* C5: while SelectControlsInfo.disabled is true, a click on any object in
\* any mode and a pointer-missed event leave every selection list as it was.
C5_DisabledSuppresses ==
    [][(disabled /\ last'.kind \in {"click", "missed"}) => selection' = selection]_vars

\* during a gizmo drag, a replace click on b2 has left the selection <<b1>>
C5_Witness ==
    /\ last.kind = "click" /\ last.disabled /\ dragging
    /\ last.mode = "replace" /\ last.object = "b2"
    /\ selection["B"] = <<"b1">>

\* C6 (P6, top level): after a pointer-missed event handled while not
\* disabled, the list of every registered scope whose container lies in no
\* other registered container is empty, in every registration order.
C6_MissedClearsTopLevel ==
    handled("missed") => \A s \in topLevel : selection[s] = <<>>

\* the sibling roots A and B both held an object, with the nested scope C
\* registered between them, and both are empty after the pointer-missed
C6_Witness ==
    /\ handled("missed")
    /\ last.before["A"] = {"a1"} /\ last.before["B"] = {"b1"}
    /\ selectables = <<"B", "C", "A">>
    /\ selection["A"] = <<>> /\ selection["B"] = <<>>

\* C7 (P6, nested): when the nested scope C holds an object selected by a
\* click handled in C, C's list is empty after a pointer-missed event handled
\* while not disabled.
C7_MissedClearsNested ==
    (handled("missed") /\ "c1" \in last.before["C"]) => selection["C"] = <<>>

----------------------------------------------------------------------------
(* Properties of the bubbling layer.                                       *)

\* the node and its ancestors, root-ward
RECURSIVE ancestry(_)
ancestry(node) ==
    IF node = NoNode THEN <<>> ELSE <<node>> \o ancestry(parent[node])

\* the listener invocations of the last dispatch, as <<node, kind>>
invoked == [i \in 1..Len(log) |-> <<log[i].node, log[i].kind>>]

\* the invocations of all listeners of the nodes of `path`, in order
RECURSIVE invocationsAlong(_)
invocationsAlong(path) ==
    IF path = <<>> THEN <<>>
    ELSE LET node == Head(path)
             array == listenersOf(node, "onClick")
         IN [i \in 1..Len(array) |-> <<node, array[i]>>]
            \o invocationsAlong(Tail(path))

\* the first node, root-ward from `object`, with a listener that calls the
\* cancellation method (NoNode if there is none)
canceller(object) ==
    LET path == ancestry(object)
        stops == {i \in 1..Len(path) : "stop" \in Range(listenersOf(path[i], "onClick"))}
    IN IF stops = {} THEN NoNode
       ELSE path[CHOOSE i \in stops : \A j \in stops : i <= j]

\* the path from `object` up to and including `node`
RECURSIVE pathTo(_, _)
pathTo(object, node) ==
    IF object = node \/ parent[object] = NoNode THEN <<object>>
    ELSE <<object>> \o pathTo(parent[object], node)

\* C8 (P5): in a bubbling dispatch in which a listener on node A calls
\* stopPropagation, the listeners of the nodes from the target up to A are
\* invoked, all of A's included, and no listener of a node above A is.
C8_CancellationStopsBubbling ==
    (last.kind = "dispatch" /\ last.bubbles /\ canceller(last.object) # NoNode) =>
        invoked = invocationsAlong(pathTo(last.object, canceller(last.object)))

\* C9: a bubbling dispatch that nobody cancels invokes the listeners of the
\* target, then of its parent, and so on to the node without parent, every
\* node once; a dispatch with bubbles = false invokes the target's only.
C9_BubblingOrder ==
    (last.kind = "dispatch" /\ (~last.bubbles \/ canceller(last.object) = NoNode)) =>
        invoked = IF last.bubbles THEN invocationsAlong(ancestry(last.object))
              ELSE invocationsAlong(<<last.object>>)

\* a bubbling dispatch from c1 has reached a listener on each of c1, C, A
\* and the scene, in that order
C9_Witness ==
    /\ last.kind = "dispatch" /\ last.bubbles /\ last.object = "c1"
    /\ canceller("c1") = NoNode
    /\ [i \in 1..Len(log) |-> log[i].node] = <<"c1", "C", "A", "scene">>

\* C10: a click on an object of the inner scope C that C's click listener
\* handles does not invoke the click listener of the outer scope A and does
\* not change A's list.
C10_InnerStopsOuter ==
    [][(last'.kind = "click" /\ ~disabled /\ last'.object = "c1") =>
        /\ \A i \in 1..Len(log') : log'[i].node # "A"
        /\ selection'["A"] = selection["A"]]_vars

\* C11: at every listener invocation of a bubbling dispatch from X the
\* event's currentTarget is the node whose listeners are being run and the
\* event's target is X.
C11_TargetFixed ==
    (last.kind = "dispatch" /\ last.bubbles) =>
        \A i \in 1..Len(log) :
            /\ log[i].currentTarget = log[i].node
            /\ log[i].target = last.object

\* C12: a write to a field of the synthetic event is copied to the same
\* field of the underlying event when the underlying event has that field,
\* except for target and currentTarget, whose writes never change the
\* underlying event; stopPropagation called through the synthetic event
\* acts on the underlying event.
C12_ProxyWrites ==
    [][/\ last'.kind = "write" =>
            LET prop == last'.object
                value == proxyGet(event', prop)
            IN /\ prop \in DOMAIN event'.target
               /\ event'.event =
                    IF prop \in DOMAIN event.event /\ prop \notin {"target", "currentTarget"}
                    THEN [event.event EXCEPT ![prop] = value]
                    ELSE event.event
       /\ last'.kind = "cancel" =>
            /\ event'.event.stopped
            /\ event'.target = event.target]_vars

\* after a cancellation through the synthetic event and a write of
\* currentTarget that the underlying event did not get, a write of
\* cancelBubble has reached the underlying event
C12_Witness ==
    /\ last.kind = "write" /\ last.object = "cancelBubble"
    /\ event.event.cancelBubble /\ event.target.cancelBubble
    /\ event.event.stopped /\ ~event.target.stopped
    /\ event.target.currentTarget = "A"
    /\ event.event.currentTarget = FrameworkTarget

\* C13: every intercepted event reaches the scene root's listeners: an
\* event without hit object is dispatched at the scene root itself, and an
\* event with a hit object that no listener stops bubbles up to the root;
\* the root's listeners are each invoked once, in order.
C13_RootObservesAll ==
    (/\ last.kind = "dispatch"
     /\ \/ last.object = "scene"
        \/ last.bubbles /\ canceller(last.object) = NoNode) =>
        SelectSeq(invoked, LAMBDA x : x[1] = "scene") = invocationsAlong(<<"scene">>)

\* a click that hit c1 has been delivered to c1's listener and then to the
\* two listeners of the scene root
C13_Witness ==
    /\ last.kind = "dispatch" /\ last.bubbles /\ last.object = "c1"
    /\ invoked = <<<<"c1", "plain">>, <<"scene", "plain">>, <<"scene", "plain">>>>

\* the nearest enclosing scope with isolateSelections, or the outermost one
RECURSIVE enclosingGlobal(_)
enclosingGlobal(s) ==
    IF isolateSelections[s] THEN s
    ELSE IF contextParent[s] # NoSel THEN enclosingGlobal(contextParent[s])
    ELSE s

\* C14: the list the click handler of a nested, non-isolated scope uses as
\* selection_global is the list of the nearest enclosing isolated scope, or
\* of the outermost scope: when the handler of C has handled a click, the
\* scope globalSelectable gives for C's SelectableInfo is A.
C14_GlobalIsEnclosing ==
    (handled("click") /\ \E i \in 1..Len(log) : log[i].node = "C") =>
        /\ SelectableInfo("C").parent = contextParent["C"]
        /\ globalSelectable(SelectableInfo("C")) = enclosingGlobal("C")

\* C15: useLocalSelectableTo(object) answers the registered scope whose
\* container is the most deeply nested of the registered containers that
\* are strict ancestors of the object, in every registration order, and
\* throws when no registered container is a strict ancestor of the object.
C15_ClosestEnclosingScope ==
    last.kind = "locate" =>
        IF scopesOf(last.object) = {} THEN located = Thrown
        ELSE /\ located \in scopesOf(last.object)
             /\ \A t \in scopesOf(last.object) \ {located} : isDescendantOf(located, t, {})

\* with A registered before C, the scope of c1 is C
C15_Witness ==
    /\ last.kind = "locate" /\ last.object = "c1"
    /\ selectables = <<"A", "B", "C">>
    /\ located = "C"

\* C16: after any sequence of clicks and pointer-missed events, every object
\* in the selection list of a scope is a descendant of the scope's container.
C16_SelectionWithinContainer ==
    \A s \in Range(selectables) :
        \A o \in Range(selection[s]) : isDescendantOf(o, s, {})

\* C17 (P3, antichain): whatever the selection list held when the gizmo
\* mounted, in whatever order, and after every later insertion and deletion,
\* no member of the islands list is a strict descendant of another member.
C17_IslandsAntichain ==
    \A i, k \in 1..Len(islands) : ~isDescendantOf(islands[i], islands[k], {})

\* C18 (P3, coverage): after any insertions and deletions every object in the
\* selection list is a descendant-or-self of exactly one member of the
\* islands list.
C18_IslandsCover ==
    \A o \in Range(objects) :
        Cardinality({k \in 1..Len(islands) : isDescendantOfOrEqual(o, islands[k], {})}) = 1

\* C19: after any insertions and deletions every member of the islands list
\* is in the selection list, so an empty selection has no islands.
C19_IslandsSelected ==
    Range(islands) \subseteq Range(objects)

\* C20: complete returns the session to idle: after complete the
\* directly-transformed set is empty, so in a later drag started on another
\* object every other tracked object, the ones dragged directly in earlier
\* drags included, is moved as a follower.
C20_CompleteReturnsToIdle ==
    /\ last.kind = "complete" => directlyTransformed = <<>>
    /\ (last.kind \in {"transform", "complete"} /\ directlyTransformed # <<>>) =>
           LET current == directlyTransformed[Len(directlyTransformed)]
           IN \A o \in Range(transformed) \ {current} :
                  o \in DOMAIN startTransforms => o \in Range(applied.moved)

\* the object the running (or the last) drag was started on
current == directlyTransformed[Len(directlyTransformed)]

\* the followers the last call moved from the snapshot the start of this drag took
movedFromStart ==
    {o \in Range(applied.moved) : startTransforms[o].drag = Len(directlyTransformed)}

\* C21 (P4): when a drag that reported its deltas through onTransform is
\* completed, every follower ends at its start snapshot multiplied by the
\* composition of all the deltas of the drag (translations along one axis).
C21_DeltasCompose ==
    (last.kind = "complete" /\ ~applied.thrown) =>
        \A o \in movedFromStart :
            position[o] = multiply(startTransforms[o].transform, applied.composed)

\* C22: in every transform and complete call each follower is moved from
\* the snapshot that the start of the same drag recorded for it, never from
\* one an earlier drag recorded, also when the tracked list gained the
\* follower after start.
C22_SnapshotOfSameDrag ==
    last.kind \in {"transform", "complete"} =>
        \A o \in Range(applied.moved) : startTransforms[o].drag = Len(directlyTransformed)

\* C23: the delta given to transformer.transform, which the onTransform
\* events carry, is the accumulated transform of the dragged object since
\* the start of the drag (in either direction), not the change since the
\* previous onTransform callback.
C23_DeltaAccumulated ==
    last.kind = "transform" =>
        LET accumulated == multiply(invert(startTransforms[current].transform), position[current])
        IN applied.delta \in {accumulated, invert(accumulated)}

\* C29: a transform or complete call that raises "indirectly transformed
\* object's start transform not found" has moved no tracked object.
C29_ThrowAppliesNothing ==
    (last.kind \in {"transform", "complete"} /\ applied.thrown) => applied.moved = <<>>

\* C24: with the transform controls mounted next to the Selectable
\* containers, resolving the scope of the pivot of the `average` placement
\* (useGlobalSelectable(pivot), at the top of TransformComponent) does not
\* throw once the Selectable containers have registered, so that a drag on
\* the pivot can reach start.
C24_PivotHasScope ==
    (last.kind = "locate" /\ last.object = Pivot /\ Range(selectables) = Containers) =>
        located # Thrown

\* C30: useLocalSelectable / useGlobalSelectable / useSelection given a ref
\* that is not resolved yet is a silent no-op: it does not throw, whichever
\* scopes have registered.
C30_UnresolvedRefIsSilent ==
    (last.kind = "locateRef" /\ Range(selectables) = Containers) => located # Thrown

\* how often the last change of the selection list dispatched `name` to `o`
raisedTo(o, name) ==
    Cardinality({i \in 1..Len(raised.events) : raised.events[i] = <<o, name>>})

\* C25: onSelected and onDeselected are raised once per membership
\* transition and never redundantly: a change of the selection raises
\* onSelected for an object once if the object was not selected before and is
\* selected after, onDeselected once if it was selected before and is not
\* after, and nothing otherwise (a replace click on an object selected among
\* others raises neither for that object).
C25_EventsOncePerTransition ==
    \A o \in Selected :
        /\ raisedTo(o, "onSelected") =
               IF o \notin raised.before /\ o \in Range(objects) THEN 1 ELSE 0
        /\ raisedTo(o, "onDeselected") =
               IF o \in raised.before /\ o \notin Range(objects) THEN 1 ELSE 0

\* the list once the cleanup of the hook's previous effect run is done
afterCleanup ==
    IF membership.member # NoNode /\ indexOf(objects, membership.member) # -1
    THEN spliceOut(objects, indexOf(objects, membership.member)) ELSE objects

\* C26: a member the hook inserted before, removed by the cleanup and now
\* inserted again by the same hook, goes immediately after the element that
\* preceded it at its previous insertion if that element is still in the
\* list, to index 0 if it had no predecessor then, and to the end of the
\* list if that predecessor is gone.
C26_ReinsertAfterPredecessor ==
    [][(last'.kind = "member" /\ last'.object # NoNode
            /\ membership.preceded[last'.object] # Undefined) =>
          LET before == membership.preceded[last'.object]
              at == IF before = Start THEN 0
                    ELSE IF indexOf(afterCleanup, before) # -1
                         THEN indexOf(afterCleanup, before) + 1
                         ELSE Len(afterCleanup)
          IN objects' = spliceIn(afterCleanup, at, last'.object)]_vars

\* C27 (P7): a vertex whose index map gives no display index renders
\* nothing and raises no error, one with two or more display indices raises
\* 'expected single index', and only one with exactly one display index gets
\* a proxy, positioned at that display vertex.
C27_VertexProxyByIndexCount ==
    \A v \in Vertices :
        LET indices == geometryEdit.map[v]
        IN geometryEdit.rendered[v] # NotRendered =>
              /\ Len(indices) = 0 => geometryEdit.rendered[v] = Nothing
              /\ Len(indices) >= 2 => geometryEdit.rendered[v] = ExpectedSingleIndex
              /\ Len(indices) = 1 =>
                     geometryEdit.rendered[v] = Instance(vertex(indices[1]))
              /\ v \in vertexProxies(geometryEdit) => Len(indices) = 1

\* all three cases rendered
C27_Witness ==
    /\ Len(geometryEdit.map["v1"]) = 0
    /\ geometryEdit.rendered["v1"] = Nothing
    /\ geometryEdit.map["v2"] = <<2>>
    /\ geometryEdit.rendered["v2"] = Instance(20)
    /\ geometryEdit.map["v3"] = <<1, 2>>
    /\ geometryEdit.rendered["v3"] = ExpectedSingleIndex

\* C28: on every 'geometry updated' notification each vertex proxy and each
\* face proxy recomputes, except the proxy being dragged (between its
\* onTransformStart and its onTransformComplete), which skips it.
C28_DraggedProxySkipsUpdate ==
    last.kind = "geometryUpdate" =>
        \A p \in vertexProxies(geometryEdit) \cup Faces :
            IF p = geometryEdit.dragging
            THEN geometryEdit.computed[p] < geometryEdit.updates
            ELSE geometryEdit.computed[p] = geometryEdit.updates

\* how many events of the type the last ObjectTransformer method dispatched
\* to the object, bubbling
dispatchedTo(o, type) ==
    Cardinality({i \in 1..Len(last.dispatched) :
                    last.dispatched[i] = [object |-> o, type |-> type, bubbles |-> TRUE]})

\* C31: start(obj, coordinateSystem) adds obj to the directly-transformed
\* collection and, for every object tracked at that moment, records its
\* current transform (the local matrix for `local`, the world matrix for
\* `global`) as the snapshot of this drag and dispatches exactly one
\* bubbling onTransformStart event to it.
C31_StartSnapshotsEveryTracked ==
    last.kind = "start" =>
        /\ directlyTransformed # <<>>
        /\ directlyTransformed[Len(directlyTransformed)] = last.object
        /\ Len(last.dispatched) = Len(objects)
        /\ \A o \in Range(objects) :
               /\ o \in DOMAIN startTransforms
               /\ startTransforms[o].drag = Len(directlyTransformed)
               /\ startTransforms[o].transform =
                      IF coordinateSystem = "local" THEN position[o]
                      ELSE position[o] + matrixWorld(position, parent[o])
               /\ dispatchedTo(o, "onTransformStart") = 1

\* a drag starts in the global coordinate system with two objects tracked,
\* one of them below a parent that has been moved
C31_Witness ==
    /\ last.kind = "start"
    /\ coordinateSystem = "global"
    /\ Len(objects) >= 2
    /\ \E o \in Range(objects) : matrixWorld(position, parent[o]) # 0

\* C32: a transform call that returns moves only tracked objects that are
\* not in the directly-transformed collection: the directly transformed
\* objects keep the transform the gizmo gave them and the objects outside
\* the tracked list keep theirs; afterwards exactly one onTransform event
\* has been dispatched to every tracked object, the directly transformed
\* ones included.
C32_TransformMovesFollowersOnly ==
    [][(last'.kind = "transform" /\ ~applied'.thrown) =>
          /\ \A o \in Nodes \ {current} :
                 (o \notin Range(objects) \/ o \in Range(directlyTransformed)) =>
                     position'[o] = position[o]
          /\ position'[current] - position[current] \in Steps \cup {0}
          /\ Range(applied'.moved) = Range(objects) \ Range(directlyTransformed)
          /\ Len(last'.dispatched) = Len(objects)
          /\ \A o \in Range(objects) :
                 Cardinality({i \in 1..Len(last'.dispatched) :
                     last'.dispatched[i] =
                         [object |-> o, type |-> "onTransform", bubbles |-> TRUE]}) = 1]_vars

\* a transform call has moved a follower while a directly transformed
\* object of an earlier drag and the dragged object are tracked as well
C32_Witness ==
    /\ last.kind = "transform"
    /\ ~applied.thrown
    /\ Len(directlyTransformed) >= 2
    /\ \E o \in Range(directlyTransformed) : o # current /\ o \in Range(objects)
    /\ applied.moved # <<>>
    /\ \E o \in Range(applied.moved) : position[o] # 0
    /\ position[current] # 0

\* C33: in the local coordinate system, when the gizmo has moved the
\* dragged object by a displacement since the drag started, then after the
\* onTransform callback every follower is at its position of the start of
\* the drag plus that displacement.
C33_FollowersMoveWithDragged ==
    (last.kind = "transform" /\ coordinateSystem = "local" /\ ~applied.thrown) =>
        LET displacement == position[current] - startTransforms[current].transform
        IN \A o \in Range(applied.moved) :
               position[o] = startTransforms[o].transform + displacement

\* C34: an identity delta changes nothing: when transform is called with
\* the identity right after start, every tracked object keeps the local
\* transform it had at start, in the local and in the global coordinate
\* system, also a follower below a parent that has been moved.
C34_IdentityDeltaIsNoOp ==
    [][(last.kind = "start" /\ last'.kind = "transform" /\ applied'.delta = 0) =>
          \A o \in Range(objects) : position'[o] = position[o]]_vars

\* C35: whenever a drag is active (onStart has run, the matching onComplete
\* has not), SelectControlsInfo.disabled is true, in every interleaving of
\* drags with the re-enable timers of earlier completions.
C35_DisabledWhileDragging == dragging => disabled

C37_TransformingBetweenStartAndComplete ==
    /\ (last.kind = "start" /\ objects # <<>>) => isTransforming
    /\ (last.kind = "complete" /\ objects # <<>>) => ~isTransforming

\* C38: useItemEffect pairs every run of the callback with one run of the
\* destructor it returned, at the latest when the effect subscribes again:
\* every item of the list has exactly one destructor pending and an item
\* outside the list has none.
C38_OneDestructorPending ==
    \A o \in Selected : subscribed[o] = IF o \in Range(objects) THEN 1 ELSE 0

\* C39: starting from empty selections, after any sequence of clicks in the
\* modes replace, toggle, add and remove and of pointer-missed events, no
\* selection list holds the same object more than once.
C39_NoDuplicates ==
    \A s \in Containers :
        \A i, j \in 1..Len(selection[s]) : selection[s][i] = selection[s][j] => i = j

====
